---- MODULE Spec2Model ----
(***************************************************************************)
(* Model of app.py: the score store (table "scores"), the ingest loop      *)
(* insert_scores_from_df, the manual add admin_add, the paginated fetch    *)
(* fetch_damtomo_ai_scores and the leaderboard build of ranking and        *)
(* user_third_rank.                                                        *)
(***************************************************************************)
EXTENDS Integers, Sequences, FiniteSets

(***************************************************************************)
(* Bounds of the model.                                                    *)
(***************************************************************************)
\* rows of one DataFrame handed to insert_scores_from_df by a concurrent writer
MaxRows == 2
\* rows of the DataFrame of the sequential (algebraic) runs
MaxBatch == 3
\* max_pages handed to fetch_damtomo_ai_scores
MaxPages == 3
\* rows of the table read by one leaderboard build
MaxRecords == 6
\* rows of the table read by one filtered leaderboard build
MaxFiltered == 4

(***************************************************************************)
(* Values.  A timestamp is a positive integer; pandas' NaT and NaN are the *)
(* markers below.  A score is an integer number of points.                 *)
(***************************************************************************)
NaT == 0
NaN == 0 - 1
\* a date text that pd.to_datetime(errors="coerce") cannot parse
BadDate == 0 - 2
\* the column value None of Score.singer
None == "None"
\* a missing value of the DataFrame column "歌手名"
NaSinger == "NaN"

Writers == {"w1", "w2"}

\* the table and the concurrent writers of insert_scores_from_df
VARIABLES
  store,      \* the rows of table scores: records [song, singer, user, score, date]
  pc,         \* per writer: position in insert_scores_from_df
  nrows,      \* per writer: len(df_new)
  idx,        \* per writer: rows of df_new consumed by iterrows
  cur,        \* per writer: the Score object s being looked up / committed
  inserted,   \* per writer: the local counter inserted
  ret,        \* per writer: the value returned
  added,      \* per writer (history): the rows this call's commits put into the store
  attempts,   \* per writer (history): session_db.commit() calls made for the current row
  faulted,    \* per writer (history): the current row's commit raised a non-integrity fault
  before,     \* per writer (history): inserted when the current row was read
  adminAdded  \* history: rows put into the store by admin_add

ingestVars == <<store, pc, nrows, idx, cur, inserted, ret, added, attempts, faulted, before, adminAdded>>

\* insert_scores_from_df run alone: the same DataFrame twice, and reordered
VARIABLES
  store0,   \* the table before the first call
  df,       \* the DataFrame df_new
  phase,    \* "start", "once", "twice", "perm"
  first,    \* table and return value of the call on df from store0
  second,   \* table and return value of the same call repeated on first's table
  perm,     \* df reordered
  cut,      \* rows of perm handed to the first of two calls
  alt       \* table and return value of the calls on perm from store0

seqVars == <<store0, df, phase, first, second, perm, cut, alt>>

\* one call of fetch_damtomo_ai_scores
VARIABLES
  f_pc,        \* "idle", "loop", "break", "done"
  f_card,      \* cookies.get("scr_cdm", "")
  f_max,       \* max_pages
  f_page,      \* the loop variable page
  f_requests,  \* (history) the pageNo of every requests.get issued, in order
  f_served,    \* (history) the response to each of them
  f_scores,    \* all_scores
  f_df         \* the DataFrame returned

fetchVars == <<f_pc, f_card, f_max, f_page, f_requests, f_served, f_scores, f_df>>

\* the leaderboard
VARIABLES
  view,    \* what the last call of ranking handed to the template, with its arguments
  thirds,  \* what the last call of user_third_rank handed to the template
  served   \* the request of this run has been answered

rankVars == <<view, thirds, served>>

vars == <<ingestVars, seqVars, fetchVars, rankVars>>

(***************************************************************************)
(* The table and its unique constraint.                                    *)
(***************************************************************************)
Key(s) == <<s.song, s.user, s.date>>

\* UniqueConstraint('song', 'user', 'date'): the insert of s into st is rejected
ViolatesNever(st, s) == FALSE
Violates(st, s) == \E t \in st : Key(t) = Key(s)

\* session_db.query(Score).filter_by(song=, user=, date=).first()
Exists(st, s) == \E t \in st : t.song = s.song /\ t.user = s.user /\ t.date = s.date

\* pd.to_datetime(..., errors="coerce") on one cell
ToDatetime(d) == IF d = BadDate THEN NaT ELSE d

\* pd.isna(r["日付"]) or pd.isna(r["スコア"])
RowIsNa(r) == ToDatetime(r.date) = NaT \/ r.score = NaN

\* Score(song=str(..), singer=.. if not isna else None, user=str(..), score=float(..), date=..)
ToScore(r) ==
  [song |-> r.song,
   singer |-> IF r.singer = NaSinger THEN None ELSE r.singer,
   user |-> r.user,
   score |-> r.score,
   date |-> ToDatetime(r.date)]

\* session_db.add(s); session_db.commit() succeeded: the row is in the table
PersistNothing(st, s) == st
Persist(st, s) == st \cup {s}

\* inserted += 1 after a successful commit
CountCommit(n) == n + 1
\* except IntegrityError: session_db.rollback()
CountConflictWrong(n) == n + 1
CountConflict(n) == n
\* except Exception: session_db.rollback(); print(...)
CountFault(n) == n

(***************************************************************************)
(* Concurrent writers: insert_scores_from_df, one step per store access.   *)
(***************************************************************************)
Songs == {"a"}
Users == {"u1"}
Dates == {1, 2}
Points == {90, 95}
Singers == {}

\* the rows a DataFrame handed to insert_scores_from_df can hold
DfRows ==
  [song : Songs, singer : Singers \cup {NaSinger}, user : Users,
   score : Points \cup {NaN}, date : Dates \cup {NaT, BadDate}]

NoScore == [song |-> "", singer |-> None, user |-> "", score |-> 0, date |-> NaT]

\* def insert_scores_from_df(df_new): if df_new.empty: return 0 ... inserted = 0
insert_scores_from_df(w) ==
  /\ pc[w] = "idle"
  /\ \E n \in 0..MaxRows :
       /\ nrows' = [nrows EXCEPT ![w] = n]
       /\ pc' = [pc EXCEPT ![w] = IF n = 0 THEN "done" ELSE "loop"]
  /\ inserted' = [inserted EXCEPT ![w] = 0]
  /\ ret' = [ret EXCEPT ![w] = 0]
  /\ UNCHANGED <<store, idx, cur, added, attempts, faulted, before, adminAdded>>
  /\ UNCHANGED <<seqVars, fetchVars, rankVars>>

\* for _, r in df_new.iterrows(): if isna(date) or isna(score): continue; build s
NextRow(w) ==
  /\ pc[w] = "loop"
  /\ idx[w] < nrows[w]
  /\ idx' = [idx EXCEPT ![w] = @ + 1]
  /\ attempts' = [attempts EXCEPT ![w] = 0]
  /\ faulted' = [faulted EXCEPT ![w] = FALSE]
  /\ before' = [before EXCEPT ![w] = inserted[w]]
  /\ \E r \in DfRows :
       IF RowIsNa(r)
       THEN /\ cur' = [cur EXCEPT ![w] = NoScore]
            /\ pc' = pc
       ELSE /\ cur' = [cur EXCEPT ![w] = ToScore(r)]
            /\ pc' = [pc EXCEPT ![w] = "lookup"]
  /\ UNCHANGED <<store, nrows, inserted, ret, added, adminAdded>>
  /\ UNCHANGED <<seqVars, fetchVars, rankVars>>

\* exists = session_db.query(Score).filter_by(...).first(); if exists: continue
Lookup(w) ==
  /\ pc[w] = "lookup"
  /\ pc' = [pc EXCEPT ![w] = IF Exists(store, cur[w]) THEN "loop" ELSE "commit"]
  /\ UNCHANGED <<store, nrows, idx, cur, inserted, ret, added, attempts, faulted, before, adminAdded>>
  /\ UNCHANGED <<seqVars, fetchVars, rankVars>>

\* the query raises (the store is unreachable): no handler encloses line 150
LookupFault(w) ==
  /\ pc[w] = "lookup"
  /\ pc' = [pc EXCEPT ![w] = "raised"]
  /\ UNCHANGED <<store, nrows, idx, cur, inserted, ret, added, attempts, faulted, before, adminAdded>>
  /\ UNCHANGED <<seqVars, fetchVars, rankVars>>

\* where the loop goes after "except Exception": the next row
AfterFaultRetry == "commit"
AfterFault == "loop"

\* session_db.add(s); session_db.commit(); inserted += 1
Commit(w) ==
  /\ pc[w] = "commit"
  /\ ~Violates(store, cur[w])
  /\ store' = Persist(store, cur[w])
  /\ added' = [added EXCEPT ![w] = @ \cup {cur[w]}]
  /\ inserted' = [inserted EXCEPT ![w] = CountCommit(@)]
  /\ attempts' = [attempts EXCEPT ![w] = @ + 1]
  /\ pc' = [pc EXCEPT ![w] = "loop"]
  /\ UNCHANGED <<nrows, idx, cur, ret, faulted, before, adminAdded>>
  /\ UNCHANGED <<seqVars, fetchVars, rankVars>>

\* commit raises IntegrityError: session_db.rollback()
CommitConflict(w) ==
  /\ pc[w] = "commit"
  /\ Violates(store, cur[w])
  /\ inserted' = [inserted EXCEPT ![w] = CountConflict(@)]
  /\ attempts' = [attempts EXCEPT ![w] = @ + 1]
  /\ pc' = [pc EXCEPT ![w] = "loop"]
  /\ UNCHANGED <<store, nrows, idx, cur, ret, added, faulted, before, adminAdded>>
  /\ UNCHANGED <<seqVars, fetchVars, rankVars>>

\* commit raises another exception: session_db.rollback(); print(...)
CommitFault(w) ==
  /\ pc[w] = "commit"
  /\ inserted' = [inserted EXCEPT ![w] = CountFault(@)]
  /\ attempts' = [attempts EXCEPT ![w] = @ + 1]
  /\ faulted' = [faulted EXCEPT ![w] = TRUE]
  /\ pc' = [pc EXCEPT ![w] = AfterFault]
  /\ UNCHANGED <<store, nrows, idx, cur, ret, added, before, adminAdded>>
  /\ UNCHANGED <<seqVars, fetchVars, rankVars>>

\* return inserted
Return(w) ==
  /\ pc[w] = "loop"
  /\ idx[w] = nrows[w]
  /\ ret' = [ret EXCEPT ![w] = inserted[w]]
  /\ pc' = [pc EXCEPT ![w] = "done"]
  /\ UNCHANGED <<store, nrows, idx, cur, inserted, added, attempts, faulted, before, adminAdded>>
  /\ UNCHANGED <<seqVars, fetchVars, rankVars>>

(***************************************************************************)
(* admin_add: the form's fields after strip; score and date after parsing  *)
(* (NaN: float() raised, NaT: parse_datetime_flexible returned None).      *)
(***************************************************************************)
AdminForms ==
  [song : Songs \cup {""}, singer : Singers \cup {""}, user : Users \cup {""},
   score : Points \cup {NaN}, date : Dates \cup {NaT}]

\* errors: song/user empty, score not a number, date not parseable
FormErrors(f) == f.song = "" \/ f.user = "" \/ f.score = NaN \/ f.date = NaT

\* Score(song=song, singer=singer or None, user=user, score=score_val, date=date_val)
FormScore(f) ==
  [song |-> f.song, singer |-> IF f.singer = "" THEN None ELSE f.singer,
   user |-> f.user, score |-> f.score, date |-> f.date]

\* a form with errors is redirected before the store is touched; otherwise
\* db.session.add(s); db.session.commit(), rolled back on IntegrityError or
\* on any other exception
admin_add ==
  /\ \E f \in AdminForms :
       /\ ~FormErrors(f)
       /\ \/ /\ ~Violates(store, FormScore(f))
             /\ store' = Persist(store, FormScore(f))
             /\ adminAdded' = adminAdded \cup {FormScore(f)}
          \/ /\ Violates(store, FormScore(f))
             /\ UNCHANGED <<store, adminAdded>>
  /\ UNCHANGED <<pc, nrows, idx, cur, inserted, ret, added, attempts, faulted, before>>
  /\ UNCHANGED <<seqVars, fetchVars, rankVars>>

(***************************************************************************)
(* insert_scores_from_df run alone and without store faults: the whole     *)
(* loop as a function of the table and the DataFrame.                      *)
(***************************************************************************)

\* the rows of the DataFrames of these runs: two rows of one key that differ
\* in score and singer, a row of another key, a row without a parseable date
\* and a row without a score
SeqRows ==
  { [song |-> "a", singer |-> NaSinger, user |-> "u1", score |-> 90, date |-> 1],
    [song |-> "a", singer |-> "x", user |-> "u1", score |-> 95, date |-> 1],
    [song |-> "a", singer |-> "x", user |-> "u1", score |-> 90, date |-> 2],
    [song |-> "a", singer |-> "x", user |-> "u1", score |-> 90, date |-> BadDate],
    [song |-> "a", singer |-> "x", user |-> "u1", score |-> NaN, date |-> 2] }

SeqScores == {ToScore(r) : r \in {q \in SeqRows : ~RowIsNa(q)}}

UniqueKeys(st) == \A s \in st : \A t \in st : Key(s) = Key(t) => s = t

SeqStores == {st \in SUBSET SeqScores : UniqueKeys(st)}

SeqBatches == UNION {[1..n -> SeqRows] : n \in 0..MaxBatch}

RECURSIVE InsertRows(_, _)

\* "continue": the loop goes on with the rows that follow
ContinueBreaks(acc, rest) == acc
Continue(acc, rest) == InsertRows(acc, rest)

\* one pass of the loop body, lines 142-163, with no store fault
InsertRows(acc, rows) ==
  IF rows = <<>> THEN acc
  ELSE LET r == Head(rows)
           s == ToScore(r)
       IN  IF RowIsNa(r) THEN Continue(acc, Tail(rows))
           ELSE IF Exists(acc.store, s) THEN Continue(acc, Tail(rows))
           ELSE IF Violates(acc.store, s)
                THEN Continue([acc EXCEPT !.inserted = CountConflict(@)], Tail(rows))
                ELSE Continue([store |-> Persist(acc.store, s),
                               inserted |-> CountCommit(acc.inserted)], Tail(rows))

\* if df_new.empty: return 0; inserted = 0; for ...: ...; return inserted
InsertScoresFromDf(st, rows) == InsertRows([store |-> st, inserted |-> 0], rows)

NoRun == [store |-> {}, inserted |-> 0]

IngestOnce ==
  /\ phase = "start"
  /\ first' = InsertScoresFromDf(store0, df)
  /\ phase' = "once"
  /\ UNCHANGED <<store0, df, second, perm, cut, alt>>
  /\ UNCHANGED <<ingestVars, fetchVars, rankVars>>

IngestAgain ==
  /\ phase = "once"
  /\ second' = InsertScoresFromDf(first.store, df)
  /\ phase' = "twice"
  /\ UNCHANGED <<store0, df, first, perm, cut, alt>>
  /\ UNCHANGED <<ingestVars, fetchVars, rankVars>>

Orderings(n) == {f \in [1..n -> 1..n] : \A i \in 1..n : \E j \in 1..n : f[j] = i}

\* the same rows in another order, in one call or split over two calls in a row
IngestPermuted ==
  /\ phase = "twice"
  /\ \E f \in Orderings(Len(df)) : \E k \in 0..Len(df) :
       LET p == [i \in 1..Len(df) |-> df[f[i]]]
           one == InsertScoresFromDf(store0, SubSeq(p, 1, k))
           two == InsertScoresFromDf(one.store, SubSeq(p, k + 1, Len(p)))
       IN  /\ perm' = p
           /\ cut' = k
           /\ alt' = [store |-> two.store, inserted |-> one.inserted + two.inserted]
  /\ phase' = "perm"
  /\ UNCHANGED <<store0, df, first, second>>
  /\ UNCHANGED <<ingestVars, fetchVars, rankVars>>

(***************************************************************************)
(* fetch_damtomo_ai_scores(username, cookies, max_pages): one step per     *)
(* pass of the page loop.                                                  *)
(***************************************************************************)

\* the text of a <scoring> element: absent, not a number, or the score * 1000
NoText == 0 - 1
BadText == 0 - 2
RawTexts == {NoText, BadText, 92000}

\* one <scoring> element: contentsName, artistName, scoringDateTime and its text
Scorings == [song : {"a"}, singer : {"x"}, date : {1, BadDate}, raw : RawTexts]

\* what one requests.get can come back with: the request failed (network or
\* HTTP status), the body is no XML, or a document with its status and scorings
PageLists ==
  LET some == {x \in Scorings : x.date = 1 \/ x.raw = 92000}
  IN  {<<>>} \cup {<<e>> : e \in some}
        \cup {<<e, g>> : e \in {x \in some : x.raw # 92000}, g \in {x \in some : x.raw = 92000}}
Responses ==
  [kind : {"failed", "malformed"}, status : {"OK"}, scorings : {<<>>}]
    \cup [kind : {"xml"}, status : {"OK", "NG"}, scorings : PageLists]

\* except Exception: break / status is None or status.text != "OK": break /
\* if not scorings: break
StopsLoopNever(resp) == FALSE
StopsLoop(resp) ==
  \/ resp.kind # "xml"
  \/ resp.status # "OK"
  \/ resp.scorings = <<>>

\* float(raw) / 1000.0 raises or raw is None: the entry is skipped
Unscorable(e) == e.raw = NoText \/ e.raw = BadText

RECURSIVE PageRows(_, _)
\* for data in scorings: ... all_scores.append([song, singer, username, score_val, date_str])
PageRows(user, scorings) ==
  IF scorings = <<>> THEN <<>>
  ELSE LET e == Head(scorings)
       IN  IF Unscorable(e) THEN PageRows(user, Tail(scorings))
           ELSE <<[song |-> e.song, singer |-> e.singer, user |-> user,
                   score |-> e.raw \div 1000, date |-> e.date]>>
                \o PageRows(user, Tail(scorings))

\* df["日付"] = pd.to_datetime(df["日付"], errors="coerce")
CoerceDates(rows) == [i \in 1..Len(rows) |-> [rows[i] EXCEPT !.date = ToDatetime(@)]]

FetchUser == "u1"

\* update_ranking: if not cookies.get("scr_cdm"): continue
update_ranking_skip ==
  /\ f_pc = "idle"
  /\ f_card = ""
  /\ f_pc' = "done"
  /\ UNCHANGED <<f_card, f_max, f_page, f_requests, f_served, f_scores, f_df>>
  /\ UNCHANGED <<ingestVars, seqVars, rankVars>>

\* the call: all_scores = []; for page in range(1, max_pages + 1)
fetch_damtomo_ai_scores ==
  /\ f_pc = "idle"
  /\ f_pc' = "loop"
  /\ f_page' = 1
  /\ f_scores' = <<>>
  /\ UNCHANGED <<f_card, f_max, f_requests, f_served, f_df>>
  /\ UNCHANGED <<ingestVars, seqVars, rankVars>>

\* if not params["cdmCardNo"]: break
NoCardBreak ==
  /\ f_pc = "loop"
  /\ f_page <= f_max
  /\ f_card = ""
  /\ f_pc' = "break"
  /\ UNCHANGED <<f_card, f_max, f_page, f_requests, f_served, f_scores, f_df>>
  /\ UNCHANGED <<ingestVars, seqVars, rankVars>>

\* one pass of the loop body with a card number: the request and its response
FetchPage ==
  /\ f_pc = "loop"
  /\ f_page <= f_max
  /\ f_card # ""
  /\ \E resp \in Responses :
       /\ f_requests' = Append(f_requests, f_page)
       /\ f_served' = Append(f_served, resp)
       /\ IF StopsLoop(resp)
          THEN /\ f_pc' = "break"
               /\ UNCHANGED <<f_page, f_scores>>
          ELSE /\ f_pc' = "loop"
               /\ f_page' = f_page + 1
               /\ f_scores' = f_scores \o PageRows(FetchUser, resp.scorings)
  /\ UNCHANGED <<f_card, f_max, f_df>>
  /\ UNCHANGED <<ingestVars, seqVars, rankVars>>

\* after the loop: df = pd.DataFrame(all_scores); dates coerced; return df
FetchReturn ==
  /\ \/ f_pc = "break"
     \/ f_pc = "loop" /\ f_page > f_max
  /\ f_df' = CoerceDates(f_scores)
  /\ f_pc' = "done"
  /\ UNCHANGED <<f_card, f_max, f_page, f_requests, f_served, f_scores>>
  /\ UNCHANGED <<ingestVars, seqVars, rankVars>>

(***************************************************************************)
(* The leaderboard: df_from_db, ranking and user_third_rank, as functions  *)
(* of the table.  A DataFrame is the sequence of its rows.                 *)
(***************************************************************************)

\* the strings of the model in Python's order of str
NameOrder == <<"", "B", "a", "ab", "u1", "u2", "u3", "u4">>
NameRank(x) == CHOOSE i \in 1..Len(NameOrder) : NameOrder[i] = x

\* the letters of a string, lower-cased (str.contains(..., case=False))
Letters(x) ==
  CASE x = "a" -> <<"a">>
    [] x = "ab" -> <<"a", "b">>
    [] x = "B" -> <<"b">>
    [] x = "b" -> <<"b">>
    [] x = "x" -> <<"x">>
    [] OTHER -> <<>>

\* Series.str.contains(q, case=False) on one cell, for a query of plain letters
Contains(x, q) ==
  LET a == Letters(x)
      b == Letters(q)
  IN  \E i \in 0..Len(a) : i + Len(b) <= Len(a) /\ SubSeq(a, i + 1, i + Len(b)) = b

RECURSIVE SetToSeq(_)
SetToSeq(S) ==
  IF S = {} THEN <<>>
  ELSE LET x == CHOOSE y \in S : TRUE IN <<x>> \o SetToSeq(S \ {x})

Reverse(q) == [i \in 1..Len(q) |-> q[Len(q) + 1 - i]]

\* db.session.query(Score).all() as a DataFrame: the rows in the order the
\* database returns them, which no ORDER BY fixes
df_from_db(st, rev) == IF rev THEN Reverse(SetToSeq(st)) ELSE SetToSeq(st)

Range(q) == {q[i] : i \in 1..Len(q)}

\* a stable sort: x goes before the first element it strictly precedes
Place(x, sorted, prec) ==
  LET hits == {i \in 1..Len(sorted) : <<x, sorted[i]>> \in prec}
      at == IF hits = {} THEN Len(sorted) + 1
            ELSE CHOOSE i \in hits : \A j \in hits : i <= j
  IN  SubSeq(sorted, 1, at - 1) \o <<x>> \o SubSeq(sorted, at, Len(sorted))

RECURSIVE StableSortInto(_, _, _)
StableSortInto(sorted, rest, prec) ==
  IF rest = <<>> THEN sorted
  ELSE StableSortInto(Place(Head(rest), sorted, prec), Tail(rest), prec)

StableSort(q, prec) == StableSortInto(<<>>, q, prec)

\* the order of sort_values(["スコア", "日付"], ascending=[False, True])
ScoreDateBeforeLatest(x, y) == x.score > y.score \/ (x.score = y.score /\ x.date > y.date)
ScoreDateBefore(x, y) == x.score > y.score \/ (x.score = y.score /\ x.date < y.date)

sort_values(rows) ==
  StableSort(rows, {p \in Range(rows) \X Range(rows) : ScoreDateBefore(p[1], p[2])})

\* the group keys (曲名, ユーザー) in sorted order
PairBefore(x, y) ==
  \/ NameRank(x[1]) < NameRank(y[1])
  \/ x[1] = y[1] /\ NameRank(x[2]) < NameRank(y[2])

SortedPairs(rows) ==
  LET pairs == {<<r.song, r.user>> : r \in Range(rows)}
  IN  StableSort(SetToSeq(pairs), {p \in pairs \X pairs : PairBefore(p[1], p[2])})

\* GroupBy.first() on one column: the first value of the group that is not null
FirstNonNull(vals) ==
  IF \E i \in 1..Len(vals) : vals[i] # None
  THEN vals[CHOOSE i \in 1..Len(vals) :
              vals[i] # None /\ \A j \in 1..(i - 1) : vals[j] = None]
  ELSE None

\* ordered.groupby(["曲名", "ユーザー"], as_index=False).first()
groupby_first(ordered) ==
  LET pairs == SortedPairs(ordered)
      grp(k) == SelectSeq(ordered, LAMBDA r : r.song = pairs[k][1] /\ r.user = pairs[k][2])
  IN  [k \in 1..Len(pairs) |->
         [song |-> pairs[k][1],
          user |-> pairs[k][2],
          singer |-> FirstNonNull([i \in 1..Len(grp(k)) |-> grp(k)[i].singer]),
          score |-> grp(k)[1].score,
          date |-> grp(k)[1].date]]

\* best_rows of ranking (lines 316-319) and of user_third_rank (lines 424-428)
BestRows(rows) == IF rows = <<>> THEN <<>> ELSE groupby_first(sort_values(rows))

\* the group names of best_rows.groupby("曲名"), in sorted order
SortedSongs(rows) ==
  LET songs == {r.song : r \in Range(rows)}
  IN  StableSort(SetToSeq(songs),
                 {p \in songs \X songs : NameRank(p[1]) < NameRank(p[2])})

\* head(3)
TopN == 3
Head3(q) == SubSeq(q, 1, IF Len(q) < TopN THEN Len(q) ELSE TopN)

\* for song, group in best_rows.groupby("曲名"): g_sorted, top3 and the entry
SongEntry(best, song) ==
  LET g_sorted == sort_values(SelectSeq(best, LAMBDA r : r.song = song))
  IN  [song |-> song,
       top_score |-> g_sorted[1].score,
       records |-> Head3(g_sorted),
       singer |-> g_sorted[1].singer]

\* enumerate(top3, start=1): idx == 1 counts a first place, idx == 3 a third place
IsFirstPlace(i) == i = 1
IsThirdPlaceWrong(i) == i = 2
IsThirdPlace(i) == i = 3

\* first_place_counts[u] = first_place_counts.get(u, 0) + 1: a dict whose keys
\* are the users counted at least once
PlaceCounts(entries, counted(_)) ==
  LET hit(k, u) == \E i \in 1..Len(entries[k].records) :
                      counted(i) /\ entries[k].records[i].user = u
      seen == UNION {{r.user : r \in Range(entries[k].records)} : k \in 1..Len(entries)}
  IN  [u \in {v \in seen : \E k \in 1..Len(entries) : hit(k, v)} |->
         Cardinality({k \in 1..Len(entries) : hit(k, u)})]

\* ranking_list.sort(key=lambda x: x["top_score"], reverse=True)
SortByTopScore(entries) ==
  StableSort(entries,
             {p \in Range(entries) \X Range(entries) : p[1].top_score > p[2].top_score})

\* the performers of one song: df_all.groupby("曲名")["ユーザー"].unique()
SongUsers(rows, song) == {r.user : r \in {q \in Range(rows) : q.song = song}}

\* the lambdas of lines 270 and 274
OthersTwoAny(us, fu) == Cardinality(us) = 2
OthersTwo(us, fu) == fu \notin us /\ Cardinality(us) = 2
Solo(us, fu) == Cardinality(us) = 1 /\ fu \in us

HighScore == 95
LowPeak == 80

MaxOf(S) == CHOOSE m \in S : \A n \in S : n <= m

\* the songs the filter of lines 267-284 keeps
AllowedSongs(rows, fu, ft) ==
  LET songs == {r.song : r \in Range(rows)}
      mine(song) == {r.score : r \in {q \in Range(rows) : q.song = song /\ q.user = fu}}
  IN  CASE ft = "others2" -> {g \in songs : OthersTwo(SongUsers(rows, g), fu)}
        [] ft = "solo" -> {g \in songs : Solo(SongUsers(rows, g), fu)}
        [] ft = "95" -> {g \in songs : \E v \in mine(g) : v >= HighScore}
        [] ft = "dere" -> {g \in songs : mine(g) # {} /\ MaxOf(mine(g)) < LowPeak}
        [] OTHER -> songs

\* if not df_all.empty and filter_user: df_all = df_all[df_all["曲名"].isin(allowed)]
TypeFilter(rows, fu, ft) ==
  IF rows = <<>> \/ fu = "" THEN rows
  ELSE SelectSeq(rows, LAMBDA r : r.song \in AllowedSongs(rows, fu, ft))

\* lines 309-313: the substring filters on 曲名 and on 歌手名.fillna("")
SearchFilter(rows, sq, gq) ==
  LET bysong == IF sq = "" THEN rows ELSE SelectSeq(rows, LAMBDA r : Contains(r.song, sq))
  IN  IF gq = "" THEN bysong
      ELSE SelectSeq(bysong, LAMBDA r : Contains(IF r.singer = None THEN "" ELSE r.singer, gq))

RECURSIVE SumScores(_)
SumScores(rows) == IF rows = <<>> THEN 0 ELSE Head(rows).score + SumScores(Tail(rows))

\* round(2) of a mean, in hundredths of a point: numpy rounds half to even
RoundedMean(total, n) ==
  LET t == 100 * total
      q == t \div n
      r == t % n
  IN  IF 2 * r < n THEN q
      ELSE IF 2 * r > n THEN q + 1
      ELSE IF q % 2 = 0 THEN q ELSE q + 1

OfUser(rows, u) == SelectSeq(rows, LAMBDA r : r.user = u)

\* df_all.groupby("ユーザー")["スコア"].mean().round(2).to_dict()
UserAverages(rows) ==
  [u \in {r.user : r \in Range(rows)} |->
     RoundedMean(SumScores(OfUser(rows, u)), Len(OfUser(rows, u)))]

\* df_all.groupby("ユーザー").size().to_dict()
UserTotalRecords(rows) == [u \in {r.user : r \in Range(rows)} |-> Len(OfUser(rows, u))]

\* for user, group in df_95.groupby("ユーザー"): group["曲名"].nunique()
User95Counts(rows) ==
  [u \in {r.user : r \in {q \in Range(rows) : q.score >= HighScore}} |->
     Cardinality({r.song : r \in {q \in Range(rows) : q.user = u /\ q.score >= HighScore}})]

\* for user, group in df_all.groupby("ユーザー"): (max per song < 80).sum()
UserDereCounts(rows) ==
  [u \in {r.user : r \in Range(rows)} |->
     Cardinality({g \in {r.song : r \in Range(OfUser(rows, u))} :
        MaxOf({r.score : r \in {q \in Range(rows) : q.user = u /\ q.song = g}}) < LowPeak})]

\* def ranking(): everything render_template receives
Ranking(st, rev, fu, ft, sq, gq) ==
  LET df_all == TypeFilter(df_from_db(st, rev), fu, ft)
      filtered == SearchFilter(df_all, sq, gq)
      best_rows == BestRows(filtered)
      songs == SortedSongs(best_rows)
      entries == [k \in 1..Len(songs) |-> SongEntry(best_rows, songs[k])]
  IN  [filter_user |-> fu, filter_type |-> ft, song_query |-> sq, singer_query |-> gq,
       df_all |-> Range(df_all),
       filtered |-> Range(filtered),
       best_rows |-> best_rows,
       ranking_list |-> SortByTopScore(entries),
       first_place_counts |-> PlaceCounts(entries, IsFirstPlace),
       third_place_counts |-> PlaceCounts(entries, IsThirdPlace),
       user_averages |-> UserAverages(df_all),
       user_total_records |-> UserTotalRecords(df_all),
       user_95_counts |-> User95Counts(df_all),
       user_dere_counts |-> UserDereCounts(df_all)]

\* def user_third_rank(username)
UserThirdRank(st, rev, username) ==
  LET best_rows == BestRows(df_from_db(st, rev))
      songs == SortedSongs(best_rows)
      entries == [k \in 1..Len(songs) |-> SongEntry(best_rows, songs[k])]
      cards == SelectSeq(entries, LAMBDA e :
                 Len(e.records) >= TopN /\ e.records[TopN].user = username)
  IN  [username |-> username,
       best_rows |-> best_rows,
       ranking_cards |-> SortByTopScore(cards)]

NoView ==
  [filter_user |-> "", filter_type |-> "", song_query |-> "", singer_query |-> "",
   df_all |-> {}, filtered |-> {}, best_rows |-> <<>>, ranking_list |-> <<>>,
   first_place_counts |-> <<>>, third_place_counts |-> <<>>,
   user_averages |-> <<>>, user_total_records |-> <<>>,
   user_95_counts |-> <<>>, user_dere_counts |-> <<>>]

NoThirds == [username |-> "", best_rows |-> <<>>, ranking_cards |-> <<>>]

\* the tables a leaderboard is built from: song "a" with four performers,
\* song "ab" with three, dates that tie and dates that differ
RankKeys ==
  { <<"a", "u1", 1>>, <<"a", "u1", 2>>, <<"a", "u2", 2>>, <<"a", "u3", 1>>,
    <<"a", "u4", 1>>, <<"ab", "u1", 1>>, <<"ab", "u2", 1>>, <<"ab", "u3", 2>> }
RankPoints == {90, 95}
RankUsers == {k[2] : k \in RankKeys}

RankRows ==
  {[song |-> k[1], singer |-> None, user |-> k[2], score |-> v, date |-> k[3]] :
     k \in RankKeys, v \in RankPoints}

RankStores ==
  {st \in SUBSET RankRows : Cardinality(st) <= MaxRecords /\ UniqueKeys(st)}

\* the tables the filters are tried on: three songs, three performers, scores
\* on both sides of the two thresholds
FilterKeys ==
  { <<"a", "u1", 1>>, <<"a", "u1", 2>>, <<"a", "u2", 1>>, <<"a", "u3", 1>>,
    <<"ab", "u2", 1>>, <<"ab", "u3", 1>>, <<"B", "u1", 1>>, <<"B", "u2", 2>> }
FilterPoints == {79, 95}

FilterRows ==
  {[song |-> k[1], singer |-> None, user |-> k[2], score |-> v, date |-> k[3]] :
     k \in FilterKeys, v \in FilterPoints}

FilterStores ==
  {st \in SUBSET FilterRows : Cardinality(st) <= MaxFiltered /\ UniqueKeys(st)}

\* the tables a searched leaderboard is built from: records with and without
\* an attribution (歌手名), a pair with two records, two songs one query tells apart
CardKeys ==
  { <<"a", "u1", 1>>, <<"a", "u1", 2>>, <<"ab", "u1", 1>>, <<"ab", "u2", 1>> }
CardPoints == {79, 95}
CardSingers == {None, "x"}

CardRows ==
  {[song |-> k[1], singer |-> g, user |-> k[2], score |-> v, date |-> k[3]] :
     k \in CardKeys, v \in CardPoints, g \in CardSingers}

CardStores ==
  {st \in SUBSET CardRows : Cardinality(st) <= MaxFiltered /\ UniqueKeys(st)}

\* GET /ranking
ranking(fu, ft, sq, gq) ==
  /\ served = FALSE
  /\ served' = TRUE
  /\ \E rev \in BOOLEAN : view' = Ranking(store, rev, fu, ft, sq, gq)
  /\ UNCHANGED thirds
  /\ UNCHANGED <<ingestVars, seqVars, fetchVars>>

\* GET /user/<username>/thirds
user_third_rank(username) ==
  /\ served = FALSE
  /\ served' = TRUE
  /\ \E rev \in BOOLEAN : thirds' = UserThirdRank(store, rev, username)
  /\ UNCHANGED view
  /\ UNCHANGED <<ingestVars, seqVars, fetchVars>>

(***************************************************************************)
(* The specifications.                                                     *)
(***************************************************************************)
IdleWriter == [w \in Writers |-> 0]

\* concurrent writers and manual adds on the table create_all() made
Init ==
  /\ store = {}
  /\ pc = [w \in Writers |-> "idle"]
  /\ nrows = IdleWriter /\ idx = IdleWriter /\ inserted = IdleWriter
  /\ ret = IdleWriter /\ attempts = IdleWriter /\ before = IdleWriter
  /\ cur = [w \in Writers |-> NoScore]
  /\ added = [w \in Writers |-> {}]
  /\ faulted = [w \in Writers |-> FALSE]
  /\ adminAdded = {}
  /\ store0 = {} /\ df = <<>> /\ phase = "start" /\ perm = <<>> /\ cut = 0
  /\ first = NoRun /\ second = NoRun /\ alt = NoRun
  /\ f_pc = "idle" /\ f_card = "" /\ f_max = 0 /\ f_page = 0
  /\ f_requests = <<>> /\ f_served = <<>> /\ f_scores = <<>> /\ f_df = <<>>
  /\ view = NoView /\ thirds = NoThirds /\ served = FALSE

Next ==
  \/ \E w \in Writers :
       \/ insert_scores_from_df(w)
       \/ NextRow(w)
       \/ Lookup(w)
       \/ LookupFault(w)
       \/ Commit(w)
       \/ CommitConflict(w)
       \/ CommitFault(w)
       \/ Return(w)
  \/ admin_add

Spec == Init /\ [][Next]_vars

\* one writer, no store fault: a table and a DataFrame, ingested once, again,
\* and in another order
SeqInit ==
  /\ store = {}
  /\ pc = [w \in Writers |-> "idle"]
  /\ nrows = IdleWriter /\ idx = IdleWriter /\ inserted = IdleWriter
  /\ ret = IdleWriter /\ attempts = IdleWriter /\ before = IdleWriter
  /\ cur = [w \in Writers |-> NoScore]
  /\ added = [w \in Writers |-> {}]
  /\ faulted = [w \in Writers |-> FALSE]
  /\ adminAdded = {}
  /\ store0 \in SeqStores
  /\ df \in SeqBatches
  /\ phase = "start" /\ perm = <<>> /\ cut = 0
  /\ first = NoRun /\ second = NoRun /\ alt = NoRun
  /\ f_pc = "idle" /\ f_card = "" /\ f_max = 0 /\ f_page = 0
  /\ f_requests = <<>> /\ f_served = <<>> /\ f_scores = <<>> /\ f_df = <<>>
  /\ view = NoView /\ thirds = NoThirds /\ served = FALSE

SeqNext == IngestOnce \/ IngestAgain \/ IngestPermuted

SeqSpec == SeqInit /\ [][SeqNext]_vars

\* one call of fetch_damtomo_ai_scores.  The loop is sequential code that
\* runs on until it returns: every requests.get has timeout=15
FetchInit ==
  /\ store = {}
  /\ pc = [w \in Writers |-> "idle"]
  /\ nrows = IdleWriter /\ idx = IdleWriter /\ inserted = IdleWriter
  /\ ret = IdleWriter /\ attempts = IdleWriter /\ before = IdleWriter
  /\ cur = [w \in Writers |-> NoScore]
  /\ added = [w \in Writers |-> {}]
  /\ faulted = [w \in Writers |-> FALSE]
  /\ adminAdded = {}
  /\ store0 = {} /\ df = <<>> /\ phase = "start" /\ perm = <<>> /\ cut = 0
  /\ first = NoRun /\ second = NoRun /\ alt = NoRun
  /\ f_pc = "idle"
  /\ f_card \in {"", "card"}
  /\ f_max \in 0..MaxPages
  /\ f_page = 0
  /\ f_requests = <<>> /\ f_served = <<>> /\ f_scores = <<>> /\ f_df = <<>>
  /\ view = NoView /\ thirds = NoThirds /\ served = FALSE

FetchNext ==
  \/ update_ranking_skip
  \/ fetch_damtomo_ai_scores
  \/ NoCardBreak
  \/ FetchPage
  \/ FetchReturn

FetchSpec == FetchInit /\ [][FetchNext]_vars /\ WF_vars(FetchNext)

\* one leaderboard request on a table
RankInit ==
  /\ store \in RankStores
  /\ pc = [w \in Writers |-> "idle"]
  /\ nrows = IdleWriter /\ idx = IdleWriter /\ inserted = IdleWriter
  /\ ret = IdleWriter /\ attempts = IdleWriter /\ before = IdleWriter
  /\ cur = [w \in Writers |-> NoScore]
  /\ added = [w \in Writers |-> {}]
  /\ faulted = [w \in Writers |-> FALSE]
  /\ adminAdded = {}
  /\ store0 = {} /\ df = <<>> /\ phase = "start" /\ perm = <<>> /\ cut = 0
  /\ first = NoRun /\ second = NoRun /\ alt = NoRun
  /\ f_pc = "idle" /\ f_card = "" /\ f_max = 0 /\ f_page = 0
  /\ f_requests = <<>> /\ f_served = <<>> /\ f_scores = <<>> /\ f_df = <<>>
  /\ view = NoView /\ thirds = NoThirds /\ served = FALSE

RankNext ==
  \/ \E sq \in {"", "ab"} : ranking("", "", sq, "")
  \/ \E u \in RankUsers : user_third_rank(u)

RankSpec == RankInit /\ [][RankNext]_vars

\* one filtered leaderboard request on a table
FilterInit ==
  /\ store \in FilterStores
  /\ pc = [w \in Writers |-> "idle"]
  /\ nrows = IdleWriter /\ idx = IdleWriter /\ inserted = IdleWriter
  /\ ret = IdleWriter /\ attempts = IdleWriter /\ before = IdleWriter
  /\ cur = [w \in Writers |-> NoScore]
  /\ added = [w \in Writers |-> {}]
  /\ faulted = [w \in Writers |-> FALSE]
  /\ adminAdded = {}
  /\ store0 = {} /\ df = <<>> /\ phase = "start" /\ perm = <<>> /\ cut = 0
  /\ first = NoRun /\ second = NoRun /\ alt = NoRun
  /\ f_pc = "idle" /\ f_card = "" /\ f_max = 0 /\ f_page = 0
  /\ f_requests = <<>> /\ f_served = <<>> /\ f_scores = <<>> /\ f_df = <<>>
  /\ view = NoView /\ thirds = NoThirds /\ served = FALSE

FilterNext ==
  \E fu \in {"", "u1", "u2"} : \E ft \in {"", "solo", "others2", "95", "dere", "zzz"} :
    ranking(fu, ft, "", "")

FilterSpec == FilterInit /\ [][FilterNext]_vars

\* one searched leaderboard request on a table whose records may lack the attribution
CardInit ==
  /\ store \in CardStores
  /\ pc = [w \in Writers |-> "idle"]
  /\ nrows = IdleWriter /\ idx = IdleWriter /\ inserted = IdleWriter
  /\ ret = IdleWriter /\ attempts = IdleWriter /\ before = IdleWriter
  /\ cur = [w \in Writers |-> NoScore]
  /\ added = [w \in Writers |-> {}]
  /\ faulted = [w \in Writers |-> FALSE]
  /\ adminAdded = {}
  /\ store0 = {} /\ df = <<>> /\ phase = "start" /\ perm = <<>> /\ cut = 0
  /\ first = NoRun /\ second = NoRun /\ alt = NoRun
  /\ f_pc = "idle" /\ f_card = "" /\ f_max = 0 /\ f_page = 0
  /\ f_requests = <<>> /\ f_served = <<>> /\ f_scores = <<>> /\ f_df = <<>>
  /\ view = NoView /\ thirds = NoThirds /\ served = FALSE

CardNext ==
  \E fu \in {"", "u1"} : \E ft \in {"", "95", "dere"} :
    \E sq \in {"", "b"} : \E gq \in {"", "x"} : ranking(fu, ft, sq, gq)

CardSpec == CardInit /\ [][CardNext]_vars

(***************************************************************************)
(* Properties of the table under concurrent writers (Spec).                *)
(***************************************************************************)
KeysOf(st) == {<<s.song, s.user, s.date>> : s \in st}

RECURSIVE SumOver(_, _)
SumOver(f, S) ==
  IF S = {} THEN 0
  ELSE LET x == CHOOSE y \in S : TRUE IN f[x] + SumOver(f, S \ {x})

\* C1: in every reachable state of the table, whatever the interleaving of
\* the writers' lookups and commits and of the manual adds, no two rows agree
\* on song, user and date.
C1_UniqueTriple ==
  \A s \in store : \A t \in store :
    (s.song = t.song /\ s.user = t.user /\ s.date = t.date) => s = t

\* a writer's commit was turned down for a key that another writer or a manual
\* add had put into the table after the writer's lookup
C1_RaceRejected ==
  \E w \in Writers :
    /\ pc[w] = "loop" /\ attempts[w] = 1 /\ ~faulted[w]
    /\ cur[w] \notin store
    /\ <<cur[w].song, cur[w].user, cur[w].date>> \in KeysOf(store)
    /\ adminAdded # {}
    /\ \E v \in Writers \ {w} : added[v] # {}

\* C3: the counter of a call is the number of rows its own commits put into
\* the table (a skipped row, a rejected insert and a faulted insert add 0); no
\* key is counted by two calls, and the counts add up to the growth of the
\* table beyond the manual adds.
C3_CountIsOwnInserts ==
  /\ \A w \in Writers : inserted[w] = Cardinality(added[w]) /\ added[w] \subseteq store
  /\ \A w \in Writers : pc[w] = "done" => ret[w] = Cardinality(added[w])
  /\ \A w \in Writers : \A v \in Writers \ {w} : KeysOf(added[w]) \cap KeysOf(added[v]) = {}
  /\ Cardinality(store) = Cardinality(adminAdded) + SumOver(inserted, Writers)
  /\ (\A w \in Writers : pc[w] = "done")
       => Cardinality(store) - Cardinality(adminAdded) = SumOver(ret, Writers)

\* two calls raced on one key between lookup and insert: both reached the
\* commit, one returned 1 and the other, turned down, returned 0
C3_RaceCountedOnce ==
  \E w \in Writers : \E v \in Writers \ {w} :
    /\ pc[w] = "done" /\ pc[v] = "done"
    /\ ret[w] = 1 /\ ret[v] = 0
    /\ attempts[v] = 1 /\ ~faulted[v]
    /\ <<cur[v].song, cur[v].user, cur[v].date>> \in KeysOf(added[w])

C5_NoRecordFaultAborts ==
  \A w \in Writers :
    pc[w] \in {"done", "raised"} => (idx[w] = nrows[w] /\ added[w] \subseteq store)

(***************************************************************************)
(* Properties of insert_scores_from_df run alone (SeqSpec).                *)
(***************************************************************************)
\* C2: for every table and every DataFrame, rows of one key repeated or not,
\* the call repeated on the same DataFrame leaves the table as the first call
\* left it and returns 0.
C2_SecondIngestIsNoOp ==
  phase \in {"twice", "perm"} => (second.store = first.store /\ second.inserted = 0)

\* the DataFrame held one key twice with different scores, the first call
\* inserted rows into a table that was not empty, and the second call has run
C2_RepeatedKeyIngestedTwice ==
  /\ phase = "twice"
  /\ store0 # {}
  /\ first.inserted >= 1
  /\ \E i \in 1..Len(df) : \E j \in 1..Len(df) :
       /\ i < j /\ df[i].score # NaN /\ df[j].score # NaN /\ df[i].score # df[j].score
       /\ df[i].date = df[j].date /\ df[i].date \in {1, 2}

\* C10 as stated: the rows in any order, in one call or in two, end in the
\* same table, compared on all fields.
C10_OrderIrrelevant ==
  phase = "perm" => alt.store = first.store

\* rows i and j of the DataFrame are usable, share a key the table did not
\* hold, and differ in score or singer
C10_Clash(i, j) ==
  /\ ~(df[i].score = NaN \/ df[i].date \notin {1, 2})
  /\ ~(df[j].score = NaN \/ df[j].date \notin {1, 2})
  /\ df[i].song = df[j].song /\ df[i].user = df[j].user /\ df[i].date = df[j].date
  /\ <<df[i].song, df[i].user, df[i].date>> \notin KeysOf(store0)
  /\ (df[i].score # df[j].score \/ df[i].singer # df[j].singer)

\* C10 as amended: the rows in any order end in a table with the same keys
\* and the same number of inserts; the tables agree on all fields provided no
\* two rows of the collection share a key that the table did not hold and
\* differ in score or attribution (of such rows the one processed first is
\* the one kept).
C10_OrderIrrelevantForKeys ==
  phase = "perm" =>
    /\ KeysOf(alt.store) = KeysOf(first.store)
    /\ alt.inserted = first.inserted
    /\ (\A i \in 1..Len(df) : \A j \in 1..Len(df) : ~C10_Clash(i, j))
         => alt.store = first.store

\* three rows were ingested in another order and split over two calls, and
\* two rows went into the table
C10_ReorderedAndSplit ==
  /\ phase = "perm"
  /\ Len(df) = 3 /\ perm # df
  /\ cut \in {1, 2}
  /\ first.inserted = 2
  /\ \A i \in 1..Len(df) : \A j \in 1..Len(df) : ~C10_Clash(i, j)

(***************************************************************************)
(* Properties of fetch_damtomo_ai_scores (FetchSpec).                      *)
(***************************************************************************)
\* a response after which no further page may be asked for
C6_IsStop(resp) ==
  \/ resp.kind \in {"failed", "malformed"}
  \/ resp.status # "OK"
  \/ resp.scorings = <<>>

RECURSIVE C6_Entries(_)
\* the entries of the pages read before the stop, in page order: song,
\* singer, performer, score in points, timestamp (NaT when it does not parse)
C6_Entries(pages) ==
  IF pages = <<>> THEN <<>>
  ELSE LET p == Head(pages)
           usable == SelectSeq(p.scorings, LAMBDA e : e.raw >= 0)
           rows == [i \in 1..Len(usable) |->
                      [song |-> usable[i].song, singer |-> usable[i].singer,
                       user |-> FetchUser, score |-> usable[i].raw \div 1000,
                       date |-> IF usable[i].date >= 1 THEN usable[i].date ELSE NaT]]
       IN  IF C6_IsStop(p) THEN <<>> ELSE rows \o C6_Entries(Tail(pages))

C6_Safe ==
  /\ Len(f_requests) = Len(f_served)
  /\ \A i \in 1..Len(f_requests) : f_requests[i] = i
  /\ Len(f_requests) <= f_max
  /\ f_card = "" => f_requests = <<>>
  /\ \A i \in 1..Len(f_served) : C6_IsStop(f_served[i]) => i = Len(f_served)
  /\ f_pc = "done" => f_df = C6_Entries(f_served)

\* C6: the requests of one call are for the pages 1, 2, ..., k in this order,
\* k <= max_pages; none follows a page that failed, was malformed, had a status
\* other than OK or had no entry; none is issued without a card number; the
\* call ends, and returns the entries of the pages read before the stop.
C6_SequentialPagesUntilStop == []C6_Safe /\ <>(f_pc = "done")

\* a call that read one page with an entry and stopped at the second, whose
\* status was not OK, short of max_pages, has returned
C6_StoppedBeforeMaxPages ==
  /\ f_pc = "done"
  /\ Len(f_requests) = 2
  /\ Len(f_requests) < f_max
  /\ f_served[2].kind = "xml" /\ f_served[2].status = "NG" /\ f_served[2].scorings # <<>>
  /\ Len(f_df) = 1

(***************************************************************************)
(* Properties of the leaderboard (RankSpec, FilterSpec).                   *)
(***************************************************************************)
\* the records of one (song, user) pair in a record set
PairRows(rows, song, user) == {r \in rows : r.song = song /\ r.user = user}

\* b carries the score and date of the pair's record with the highest score
\* and, among the pair's records with that score, the earliest date
C7_IsBestOfPair(b, rows) ==
  \E r \in PairRows(rows, b.song, b.user) :
    /\ b.score = r.score /\ b.date = r.date
    /\ \A q \in PairRows(rows, b.song, b.user) :
         q.score < r.score \/ (q.score = r.score /\ q.date >= r.date)

C7_BestOk(best, rows) ==
  /\ \A r \in rows :
       Cardinality({k \in 1..Len(best) : best[k].song = r.song /\ best[k].user = r.user}) = 1
  /\ \A k \in 1..Len(best) : C7_IsBestOfPair(best[k], rows)

\* C7: for every record set and every (song, user) pair in it, best_rows holds
\* one row for the pair, with the score and date of the pair's record of
\* highest score and, among those, of earliest date (ranking and
\* user_third_rank).
C7_BestPerPair ==
  /\ C7_BestOk(view.best_rows, view.filtered)
  /\ thirds.username # "" => C7_BestOk(thirds.best_rows, store)

\* a leaderboard was built over records where a pair reached its peak score
\* twice and best_rows kept the earlier of the two
C7_PeakRepeated ==
  /\ Len(view.best_rows) >= 2
  /\ \E r \in view.filtered : \E q \in view.filtered :
       /\ r.song = q.song /\ r.user = q.user /\ r.score = q.score /\ r.date < q.date
       /\ \E k \in 1..Len(view.best_rows) :
            /\ view.best_rows[k].song = r.song /\ view.best_rows[k].user = r.user
            /\ view.best_rows[k].date = r.date

C8_Better(x, y) == x.score > y.score \/ (x.score = y.score /\ x.date < y.date)

C8_Performers(rows, song) == {r.user : r \in {q \in rows : q.song = song}}

\* the best record of a performer for a song, as score and date
C8_BestOf(rows, song, user) ==
  LET mine == PairRows(rows, song, user)
      top == CHOOSE r \in mine :
               \A q \in mine : q.score < r.score \/ (q.score = r.score /\ q.date >= r.date)
  IN  [score |-> top.score, date |-> top.date]

\* e is the leaderboard of its song over rows: the first min(3, n) of the n
\* performers' best records by score descending, then date ascending
C8_EntryOk(e, rows) ==
  LET who == C8_Performers(rows, e.song)
      recs == e.records
      n == Cardinality(who)
  IN  /\ n >= 1
      /\ Len(recs) = IF n < 3 THEN n ELSE 3
      /\ \A i \in 1..Len(recs) :
           /\ recs[i].song = e.song
           /\ recs[i].user \in who
           /\ [score |-> recs[i].score, date |-> recs[i].date]
                = C8_BestOf(rows, e.song, recs[i].user)
      /\ \A i \in 1..Len(recs) : \A j \in 1..Len(recs) :
           /\ i # j => recs[i].user # recs[j].user
           /\ i < j => ~C8_Better(recs[j], recs[i])
      /\ \A u \in who \ {recs[i].user : i \in 1..Len(recs)} :
           \A i \in 1..Len(recs) : ~C8_Better(C8_BestOf(rows, e.song, u), recs[i])

Get(d, u) == IF u \in DOMAIN d THEN d[u] ELSE 0

\* u's best for the song is third whatever the order of equal records: two
\* performers are better, and nobody ties with u
C8_SurelyThird(rows, song, u) ==
  LET who == C8_Performers(rows, song)
      b(v) == C8_BestOf(rows, song, v)
  IN  /\ u \in who
      /\ Cardinality({v \in who : C8_Better(b(v), b(u))}) = 2
      /\ \A v \in who \ {u} : C8_Better(b(v), b(u)) \/ C8_Better(b(u), b(v))

\* C8: every song of the record set has one entry, the first min(3, n) of its
\* n performers' best records by score descending then date ascending, each
\* performer once; a performer's first-place count is the number of entries
\* it heads, its third-place count the number of entries of songs with at
\* least 3 performers where it is at index 2; user_third_rank lists entries of
\* that kind for its user.
C8_TopThree ==
  LET list == view.ranking_list
      cards == thirds.ranking_cards
  IN  /\ {list[k].song : k \in 1..Len(list)} = {r.song : r \in view.filtered}
      /\ \A k \in 1..Len(list) :
           /\ C8_EntryOk(list[k], view.filtered)
           /\ \A j \in 1..Len(list) : list[j].song = list[k].song => j = k
      /\ \A u \in RankUsers \cup DOMAIN view.first_place_counts :
           Get(view.first_place_counts, u)
             = Cardinality({k \in 1..Len(list) : list[k].records[1].user = u})
      /\ \A u \in RankUsers \cup DOMAIN view.third_place_counts :
           Get(view.third_place_counts, u)
             = Cardinality({k \in 1..Len(list) :
                  /\ Cardinality(C8_Performers(view.filtered, list[k].song)) >= 3
                  /\ Len(list[k].records) = 3
                  /\ list[k].records[3].user = u})
      /\ \A k \in 1..Len(cards) :
           /\ C8_EntryOk(cards[k], store)
           /\ Len(cards[k].records) = 3
           /\ cards[k].records[3].user = thirds.username
      /\ thirds.username # "" =>
           \A g \in {r.song : r \in store} :
             C8_SurelyThird(store, g, thirds.username)
               => \E k \in 1..Len(cards) : cards[k].song = g

\* a leaderboard was built with a song of four performers, cut to three with
\* two equal scores ordered by date, and a song of two performers
C8_FourPerformersCutToThree ==
  \E k \in 1..Len(view.ranking_list) : \E j \in 1..Len(view.ranking_list) :
    LET e == view.ranking_list[k]
    IN  /\ Cardinality(C8_Performers(view.filtered, e.song)) = 4
        /\ Len(e.records) = 3
        /\ e.records[2].score = e.records[3].score
        /\ e.records[2].date < e.records[3].date
        /\ Len(view.ranking_list[j].records) = 2
        /\ DOMAIN view.third_place_counts # {}

\* C9: with a filter user given, "solo" keeps every record of the songs whose
\* performers in the whole table are exactly the filter user and no record of
\* any other song; "others2" keeps every record of the songs that have exactly
\* two performers in the whole table, the filter user not among them, and no
\* record of any other song.
C9_PerformerSetFilters ==
  LET fu == view.filter_user
      who(g) == {r.user : r \in {q \in store : q.song = g}}
  IN  fu # "" =>
        /\ view.filter_type = "solo"
             => view.df_all = {r \in store : who(r.song) = {fu}}
        /\ view.filter_type = "others2"
             => view.df_all = {r \in store : Cardinality(who(r.song)) = 2 /\ fu \notin who(r.song)}

\* "others2" was applied to a table with a song it keeps and a song of two
\* performers, the filter user among them, which it removes
C9_OthersTwoKeptAndRemoved ==
  /\ view.filter_user # "" /\ view.filter_type = "others2"
  /\ view.df_all # {}
  /\ \E g \in {r.song : r \in store \ view.df_all} :
       /\ Cardinality({r.user : r \in {q \in store : q.song = g}}) = 2
       /\ view.filter_user \in {r.user : r \in {q \in store : q.song = g}}

(***************************************************************************)
(* Properties of the searched leaderboard (CardSpec).                      *)
(***************************************************************************)
RECURSIVE C11_SumScores(_)
C11_SumScores(S) ==
  IF S = {} THEN 0
  ELSE LET x == CHOOSE y \in S : TRUE IN x.score + C11_SumScores(S \ {x})

\* the four statistics handed to the template are those of the record set rows
C11_StatsAreOver(rows) ==
  LET mine(u) == {r \in rows : r.user = u}
      users == {r.user : r \in rows}
      high(u) == {r.song : r \in {q \in mine(u) : q.score >= HighScore}}
      low(u) == {g \in {r.song : r \in mine(u)} :
                   \A r \in mine(u) : r.song = g => r.score < LowPeak}
  IN  /\ DOMAIN view.user_total_records = users
      /\ DOMAIN view.user_averages = users
      /\ DOMAIN view.user_dere_counts = users
      /\ DOMAIN view.user_95_counts = {u \in users : high(u) # {}}
      /\ \A u \in users :
           /\ view.user_total_records[u] = Cardinality(mine(u))
           /\ view.user_averages[u] = RoundedMean(C11_SumScores(mine(u)), Cardinality(mine(u)))
           /\ view.user_dere_counts[u] = Cardinality(low(u))
           /\ Get(view.user_95_counts, u) = Cardinality(high(u))

\* C11: in one build of the leaderboard the mean, the record count, the
\* high-score song count and the low-peak song count of every performer are
\* those of the record set that the ranked songs and the first- and
\* third-place counts of the build are made from, whatever the filter type
\* and the song and singer queries.
C11_StatsOverRankedRecords ==
  served => C11_StatsAreOver(view.filtered)

\* rec is one record of rows, and no record of rows of its (song, user) pair
\* has a higher score or the same score at an earlier date
C12_IsBestRecord(rec, rows) ==
  /\ rec \in rows
  /\ \A q \in PairRows(rows, rec.song, rec.user) : ~C8_Better(q, rec)

\* C12: every record shown in an entry of the leaderboard (user, singer,
\* score, date) is, field for field, one stored record: the best record of
\* its user for the song among the records ranked; when that record has no
\* singer, the entry shows none, even if other records of the pair have one.
C12_EntryIsOneRecord ==
  \A k \in 1..Len(view.ranking_list) :
    \A i \in 1..Len(view.ranking_list[k].records) :
      C12_IsBestRecord(view.ranking_list[k].records[i], view.filtered)

====
